---------------------------- MODULE Spec2Model ----------------------------
(***************************************************************************)
(* A model of image_encryption (src/src/lib.rs): the keyed scrambling of   *)
(* an image's raw pixel buffer by encrypt_image and its inverse            *)
(* decrypt_image.                                                          *)
(*                                                                         *)
(* Two specifications are given.                                           *)
(*                                                                         *)
(*   Spec      images with a few pixels, whose pixel buffers are explicit  *)
(*             byte sequences; encrypt_image and decrypt_image are whole   *)
(*             steps applied in any order with any key.                    *)
(*                                                                         *)
(*   SpecSize  images of any 32-bit width and height, of which only the    *)
(*             header and the LENGTH of the pixel buffer are kept: the     *)
(*             part of the two functions that decides sizes, bounds checks *)
(*             and aborts.                                                 *)
(*                                                                         *)
(* Numbers are naturals below 2^31.  A u32 that may exceed that (the       *)
(* product width * height) and every buffer length of SpecSize is kept as  *)
(* its little-endian bytes.  usize is taken to be 64 bits wide.            *)
(*                                                                         *)
(* A panic of the Rust code (an index out of bounds, an overflow in a      *)
(* build with overflow checks) unwinds before the function's last          *)
(* statement, the assignment to img.pixels: the image is left as it was    *)
(* and the call is recorded with outcome "panicked".                       *)
(***************************************************************************)
EXTENDS Integers, Sequences, FiniteSets

VARIABLES
    img,      \* Spec: the Image the caller holds (lib.rs 11-17)
    hist,     \* Spec: the calls made so far, oldest first (observation only)
    hdr,      \* SpecSize: the Image with pixels replaced by its length
    sizeHist  \* SpecSize: the calls made so far (observation only)

vars == <<img, hist, hdr, sizeHist>>

(***************************************************************************)
(* Bounds of the model.                                                    *)
(***************************************************************************)
MaxWidth == 3

MaxHeight == 1

MaxCalls == 3

MaxSizeCalls == 2

\* The keys the callers pass (u64 in lib.rs; 42 is the key of the spec's
\* concrete scenario).
Keys == {42, 7}

\* First bytes of the pixel patterns an image is loaded with.
PixelBases == {10}

\* Widths and heights of SpecSize: small ones, and ones whose product does
\* not fit 32 bits (65536 = 2^16, 1073741825 = 2^30 + 1).
SizeValues == {0, 1, 2, 3, 4, 65535, 65536, 65537, 1073741825}

(***************************************************************************)
(* Bytes and words.                                                        *)
(***************************************************************************)
RECURSIVE BitXor(_, _, _)
BitXor(a, b, n) ==
    IF n = 0 THEN 0
    ELSE ((a + b) % 2) + 2 * BitXor(a \div 2, b \div 2, n - 1)

\* u8 ^ u8
Xor8(a, b) == BitXor(a, b, 8)

RECURSIVE ToLE(_, _)
\* The k little-endian bytes of n (u32::to_le_bytes for k = 4).
ToLE(n, k) ==
    IF k = 0 THEN <<>> ELSE <<n % 256>> \o ToLE(n \div 256, k - 1)

RECURSIVE FromLE(_)
\* The number whose little-endian bytes are bs (it must be below 2^31).
FromLE(bs) ==
    IF bs = <<>> THEN 0 ELSE Head(bs) + 256 * FromLE(Tail(bs))

Zeros(k) == [i \in 1..k |-> 0]

\* Column k (0-based) of the schoolbook product of byte strings x and y.
MulColumn(x, y, k) ==
    LET pairs == {i \in 1..Len(x) : k + 2 - i \in 1..Len(y)}
        RECURSIVE Sum(_)
        Sum(S) == IF S = {} THEN 0
                  ELSE LET i == CHOOSE j \in S : TRUE
                       IN x[i] * y[k + 2 - i] + Sum(S \ {i})
    IN Sum(pairs)

RECURSIVE MulCarry(_, _, _, _)
MulCarry(x, y, k, carry) ==
    IF k = Len(x) + Len(y) THEN <<>>
    ELSE LET t == MulColumn(x, y, k) + carry
         IN <<t % 256>> \o MulCarry(x, y, k + 1, t \div 256)

\* The exact product of two little-endian byte strings, Len(x) + Len(y) bytes.
MulLE(x, y) == MulCarry(x, y, 0, 0)

\* a < b for little-endian byte strings of the same length.
RECURSIVE LessLE(_, _)
LessLE(a, b) ==
    IF a = <<>> THEN FALSE
    ELSE LET n == Len(a)
         IN IF a[n] # b[n] THEN a[n] < b[n]
            ELSE LessLE(SubSeq(a, 1, n - 1), SubSeq(b, 1, n - 1))

\* lib.rs 60-63: the byte of rank i of a u32.
byte(num, i) == ToLE(num, 4)[i + 1]

(***************************************************************************)
(* The generator.  rand's SmallRng is not part of the repository; what the *)
(* code relies on is that it is a deterministic function of its seed.  It  *)
(* is modelled by a 16-bit linear congruential generator of which two      *)
(* steps make one word.                                                    *)
(***************************************************************************)
Lcg(s) == (25173 * s + 13849) % 65536

\* SmallRng::seed_from_u64(key)
seed_from_u64(key) == Lcg(key % 65536)

\* rng.gen::<u32>(): the word drawn and the generator after the draw.
next_u32(rng) ==
    LET s1 == Lcg(rng)
        s2 == Lcg(s1)
    IN [val |-> s1 + 65536 * (s2 % 32768), rng |-> s2]

\* One entry of a call's draw log: what the word was drawn for and the
\* state of the generator it was drawn from.
Draw(what, rng) == [what |-> what, from |-> rng]

\* lib.rs 73 / 117: the capacity of Vec::<u32>::with_capacity(dim), which is
\* what the loop of line 74 / 118 counts to.  The standard library
\* allocates exactly what is asked for.
with_capacity(dim) == dim

RECURSIVE GenWords(_, _, _, _)
\* lib.rs 74-76 / 118-120: push n words drawn in order.
GenWords(rng, n, acc, log) ==
    IF n = 0 THEN [vals |-> acc, rng |-> rng, log |-> log]
    ELSE LET g == next_u32(rng)
         IN GenWords(g.rng, n - 1, Append(acc, g.val),
                     Append(log, Draw("keystream", rng)))

\* (0..dim as u32).collect()
Identity(dim) == [i \in 1..dim |-> i - 1]

\* slice.swap(i, j), 0-based
Swap(v, i, j) == [v EXCEPT ![i + 1] = v[j + 1], ![j + 1] = v[i + 1]]

RECURSIVE ShuffleFrom(_, _, _, _)
\* SliceRandom::shuffle: for i in (1..len).rev() { swap(i, gen_index(i + 1)) }
ShuffleFrom(v, i, rng, log) ==
    IF i < 1 THEN [v |-> v, rng |-> rng, log |-> log]
    ELSE LET g == next_u32(rng)
             j == g.val % (i + 1)
         IN ShuffleFrom(Swap(v, i, j), i - 1, g.rng,
                        Append(log, Draw("shuffle", rng)))

shuffle(v, rng) == ShuffleFrom(v, Len(v) - 1, rng, <<>>)

(***************************************************************************)
(* The image (lib.rs 11-17) and its color types.  load_image takes the     *)
(* color type from the decoded file and the pixels from into_bytes(): one  *)
(* byte per channel for the 8-bit types, two for L16.                      *)
(***************************************************************************)
ColorTypes == {"L8", "La8", "Rgb8", "Rgba8", "L16"}

Formats == {"Png", "Jpeg"}

\* ColorType::channel_count
channel_count(color) ==
    CASE color = "L8" -> 1
      [] color = "La8" -> 2
      [] color = "Rgb8" -> 3
      [] color = "Rgba8" -> 4
      [] color = "L16" -> 1

\* ColorType::bytes_per_pixel
bytes_per_pixel(color) ==
    CASE color = "L8" -> 1
      [] color = "La8" -> 2
      [] color = "Rgb8" -> 3
      [] color = "Rgba8" -> 4
      [] color = "L16" -> 2

\* lib.rs 19-36: the image load_image returns for a file of this format,
\* color type and size whose bytes are base, base + 10, base + 20, ...
load_image(format, color, width, height, base) ==
    [format |-> format,
     pixels |-> [k \in 1..(width * height * bytes_per_pixel(color)) |->
                    (base + 10 * (k - 1)) % 256],
     color  |-> color,
     width  |-> width,
     height |-> height]

(***************************************************************************)
(* lib.rs 70 / 114: (img.width * img.height) as usize.  The product is a   *)
(* u32 product: it wraps modulo 2^32, or panics in a build with overflow   *)
(* checks.                                                                 *)
(***************************************************************************)
U32Mul(a, b) ==
    LET full == MulLE(ToLE(a, 4), ToLE(b, 4))
    IN [wrapped  |-> SubSeq(full, 1, 4),
        overflow |-> SubSeq(full, 5, 8) # Zeros(4)]

(***************************************************************************)
(* encrypt_image, lib.rs 65-107.                                           *)
(***************************************************************************)
\* A generator kept between calls: only the first call seeds it.
EncSeedCarried(key) ==
    IF hist = <<>> THEN seed_from_u64(key) ELSE hist[Len(hist)].rngEnd

\* lib.rs 66: a generator of the call's own, seeded from the key.
EncSeed(key) == seed_from_u64(key)

\* lib.rs 82-87: gather whole pixels, pixel i from pixel permutation[i].
EncGatherPanics(pixels, channels, permutation) ==
    \E p \in 1..Len(permutation), c \in 0..(channels - 1) :
        channels * permutation[p] + c >= Len(pixels)

EncGather(pixels, channels, permutation) ==
    [k \in 1..(channels * Len(permutation)) |->
        LET p == (k - 1) \div channels
            c == (k - 1) % channels
        IN pixels[channels * permutation[p + 1] + c + 1]]

\* lib.rs 90-93: the first pixel.
EncFirstPanics(pixels_perm, rand_nums, channels) ==
    \E c \in 0..(channels - 1) : c >= Len(pixels_perm) \/ Len(rand_nums) = 0

EncFirst(start, pixels_perm, rand_nums, channels) ==
    [k \in 1..channels |->
        Xor8(Xor8(byte(start, k - 1), pixels_perm[k]),
             byte(rand_nums[1], k - 1))]

RECURSIVE EncChainFromPlain(_, _, _, _, _, _)
\* The chain fed from the previous pixel of the permuted PLAINTEXT.
EncChainFromPlain(enc_pixels, pixels_perm, rand_nums, channels, dim, k) ==
    IF k >= channels * dim THEN enc_pixels
    ELSE LET i == k \div channels
             c == k % channels
             b == Xor8(Xor8(pixels_perm[channels * (i - 1) + c + 1],
                            pixels_perm[channels * i + c + 1]),
                       byte(rand_nums[i + 1], c))
         IN EncChainFromPlain(Append(enc_pixels, b), pixels_perm, rand_nums,
                              channels, dim, k + 1)

RECURSIVE EncChain(_, _, _, _, _, _)
\* lib.rs 96-104: byte k (0-based) of the output is pushed from the byte of
\* the same channel of the previous OUTPUT pixel.
EncChain(enc_pixels, pixels_perm, rand_nums, channels, dim, k) ==
    IF k >= channels * dim THEN enc_pixels
    ELSE LET i == k \div channels
             c == k % channels
             b == Xor8(Xor8(enc_pixels[channels * (i - 1) + c + 1],
                            pixels_perm[channels * i + c + 1]),
                       byte(rand_nums[i + 1], c))
         IN EncChain(Append(enc_pixels, b), pixels_perm, rand_nums,
                     channels, dim, k + 1)

\* What a call leaves behind: its outcome, the line it panicked at (0 when
\* it returned), the pixel buffer of the image afterwards, and what it drew.
CallResult(outcome, line, pixels, start, rand_nums, permutation, inv, draws, rngEnd) ==
    [outcome |-> outcome, line |-> line, pixels |-> pixels, start |-> start,
     rand_nums |-> rand_nums, permutation |-> permutation,
     inv_permutation |-> inv, draws |-> draws, rngEnd |-> rngEnd]

\* lib.rs 66-79 without line 70: seed, draw start, draw the keystream,
\* shuffle the identity.
EncGenerate(key, dim) ==
    LET rng0 == EncSeed(key)
        g0   == next_u32(rng0)
        rn   == GenWords(g0.rng, with_capacity(dim), <<>>,
                         <<Draw("init", rng0)>>)
        sh   == shuffle(Identity(dim), rn.rng)
    IN [start |-> g0.val, rand_nums |-> rn.vals, permutation |-> sh.v,
        draws |-> rn.log \o sh.log, rngEnd |-> sh.rng]

encrypt_image(im, key, checks) ==
    LET m        == U32Mul(im.width, im.height)
        dim      == FromLE(m.wrapped)
        channels == channel_count(im.color)
        gen      == EncGenerate(key, dim)
        pixels_perm == EncGather(im.pixels, channels, gen.permutation)
        first    == EncFirst(gen.start, pixels_perm, gen.rand_nums, channels)
        enc_pixels == EncChain(first, pixels_perm, gen.rand_nums, channels,
                               dim, channels)
        Panic(line) == CallResult("panicked", line, im.pixels, gen.start,
                                  gen.rand_nums, gen.permutation, <<>>,
                                  gen.draws, gen.rngEnd)
    IN IF m.overflow /\ checks
       THEN LET rng0 == EncSeed(key)
            IN CallResult("panicked", 70, im.pixels, next_u32(rng0).val,
                          <<>>, <<>>, <<>>, <<Draw("init", rng0)>>,
                          next_u32(rng0).rng)
       ELSE IF EncGatherPanics(im.pixels, channels, gen.permutation)
       THEN Panic(85)
       ELSE IF EncFirstPanics(pixels_perm, gen.rand_nums, channels)
       THEN Panic(92)
       ELSE CallResult("ok", 0, enc_pixels, gen.start, gen.rand_nums,
                       gen.permutation, <<>>, gen.draws, gen.rngEnd)

(***************************************************************************)
(* decrypt_image, lib.rs 109-157.                                          *)
(***************************************************************************)
\* lib.rs 110
DecSeed(key) == seed_from_u64(key)

\* The permutation taken for its own inverse.
InvPermutationAsIs(permutation, dim) == permutation

RECURSIVE InvFrom(_, _, _)
InvFrom(inv, permutation, i) ==
    IF i >= Len(permutation) THEN inv
    ELSE InvFrom([inv EXCEPT ![permutation[i + 1] + 1] = i], permutation, i + 1)

\* lib.rs 126-129: inv_permutation[permutation[i]] = i, from vec![0; dim].
InvPermutation(permutation, dim) == InvFrom(Zeros(dim), permutation, 0)

\* lib.rs 132-135: the first pixel.
DecFirstPanics(pixels, rand_nums, channels) ==
    \E c \in 0..(channels - 1) : c >= Len(pixels) \/ Len(rand_nums) = 0

DecFirst(start, pixels, rand_nums, channels) ==
    [k \in 1..channels |->
        Xor8(Xor8(byte(start, k - 1), pixels[k]), byte(rand_nums[1], k - 1))]

\* lib.rs 138-146: every later pixel, from the previous and the current
\* pixel of the stored buffer.
DecChainPanics(pixels, channels, dim) ==
    \E i \in 1..(dim - 1), c \in 0..(channels - 1) :
        channels * i + c >= Len(pixels)

RECURSIVE DecChainFromPlain(_, _, _, _, _, _)
\* The sweep fed from the previous pixel it COMPUTED, not the stored one.
DecChainFromPlain(pixels_perm, pixels, rand_nums, channels, dim, k) ==
    IF k >= channels * dim THEN pixels_perm
    ELSE LET i == k \div channels
             c == k % channels
             b == Xor8(Xor8(pixels_perm[channels * (i - 1) + c + 1],
                            pixels[channels * i + c + 1]),
                       byte(rand_nums[i + 1], c))
         IN DecChainFromPlain(Append(pixels_perm, b), pixels, rand_nums,
                              channels, dim, k + 1)

RECURSIVE DecChain(_, _, _, _, _, _)
DecChain(pixels_perm, pixels, rand_nums, channels, dim, k) ==
    IF k >= channels * dim THEN pixels_perm
    ELSE LET i == k \div channels
             c == k % channels
             b == Xor8(Xor8(pixels[channels * (i - 1) + c + 1],
                            pixels[channels * i + c + 1]),
                       byte(rand_nums[i + 1], c))
         IN DecChain(Append(pixels_perm, b), pixels, rand_nums, channels,
                     dim, k + 1)

\* lib.rs 148-154: gather with the inverse permutation.
DecGather(pixels_perm, channels, inv_permutation) ==
    [k \in 1..(channels * Len(inv_permutation)) |->
        LET p == (k - 1) \div channels
            c == (k - 1) % channels
        IN pixels_perm[channels * inv_permutation[p + 1] + c + 1]]

\* The keystream drawn before the initialization word.
DecGenerateStartLate(key, dim) ==
    LET rng0 == DecSeed(key)
        rn   == GenWords(rng0, with_capacity(dim), <<>>, <<>>)
        g0   == next_u32(rn.rng)
        sh   == shuffle(Identity(dim), g0.rng)
    IN [start |-> g0.val, rand_nums |-> rn.vals, permutation |-> sh.v,
        draws |-> Append(rn.log, Draw("init", rn.rng)) \o sh.log,
        rngEnd |-> sh.rng]

\* lib.rs 110-123 without line 114.
DecGenerate(key, dim) ==
    LET rng0 == DecSeed(key)
        g0   == next_u32(rng0)
        rn   == GenWords(g0.rng, with_capacity(dim), <<>>,
                         <<Draw("init", rng0)>>)
        sh   == shuffle(Identity(dim), rn.rng)
    IN [start |-> g0.val, rand_nums |-> rn.vals, permutation |-> sh.v,
        draws |-> rn.log \o sh.log, rngEnd |-> sh.rng]

decrypt_image(im, key, checks) ==
    LET m        == U32Mul(im.width, im.height)
        dim      == FromLE(m.wrapped)
        channels == channel_count(im.color)
        gen      == DecGenerate(key, dim)
        inv_permutation == InvPermutation(gen.permutation, dim)
        first    == DecFirst(gen.start, im.pixels, gen.rand_nums, channels)
        pixels_perm == DecChain(first, im.pixels, gen.rand_nums, channels,
                                dim, channels)
        dec_pixels == DecGather(pixels_perm, channels, inv_permutation)
        Panic(line) == CallResult("panicked", line, im.pixels, gen.start,
                                  gen.rand_nums, gen.permutation,
                                  inv_permutation, gen.draws, gen.rngEnd)
    IN IF m.overflow /\ checks
       THEN LET rng0 == DecSeed(key)
            IN CallResult("panicked", 114, im.pixels, next_u32(rng0).val,
                          <<>>, <<>>, <<>>, <<Draw("init", rng0)>>,
                          next_u32(rng0).rng)
       ELSE IF DecFirstPanics(im.pixels, gen.rand_nums, channels)
       THEN Panic(134)
       ELSE IF DecChainPanics(im.pixels, channels, dim)
       THEN Panic(142)
       ELSE CallResult("ok", 0, dec_pixels, gen.start, gen.rand_nums,
                       gen.permutation, inv_permutation, gen.draws,
                       gen.rngEnd)

(***************************************************************************)
(* Spec: a loaded image, and calls of the two functions on it.             *)
(***************************************************************************)
NoHeader == [format |-> "Png", len |-> Zeros(8), color |-> "L8",
             width |-> 0, height |-> 0]

Init ==
    /\ img \in {load_image(f, col, w, h, b) :
                   f \in Formats, col \in ColorTypes,
                   w \in 0..MaxWidth, h \in 0..MaxHeight, b \in PixelBases}
    /\ hist = <<>>
    /\ hdr = NoHeader
    /\ sizeHist = <<>>

Call(op, key, pre, r) ==
    [op |-> op, key |-> key, pre |-> pre, outcome |-> r.outcome,
     line |-> r.line, start |-> r.start, rand_nums |-> r.rand_nums,
     permutation |-> r.permutation, inv_permutation |-> r.inv_permutation,
     draws |-> r.draws, rngEnd |-> r.rngEnd, post |-> r.pixels]

Encrypt(key) ==
    /\ Len(hist) < MaxCalls
    /\ \E checks \in BOOLEAN :
          LET r == encrypt_image(img, key, checks)
          IN /\ img' = [img EXCEPT !.pixels = r.pixels]
             /\ hist' = Append(hist, Call("enc", key, img, r))
    /\ UNCHANGED <<hdr, sizeHist>>

Decrypt(key) ==
    /\ Len(hist) < MaxCalls
    /\ \E checks \in BOOLEAN :
          LET r == decrypt_image(img, key, checks)
          IN /\ img' = [img EXCEPT !.pixels = r.pixels]
             /\ hist' = Append(hist, Call("dec", key, img, r))
    /\ UNCHANGED <<hdr, sizeHist>>

Next ==
    \/ \E key \in Keys : Encrypt(key)
    \/ \E key \in Keys : Decrypt(key)

Spec == Init /\ [][Next]_vars

(***************************************************************************)
(* SpecSize: the sizes.  An image is kept as its header and the length of  *)
(* its pixel buffer (8 little-endian bytes, a usize); a call is kept as    *)
(* the lines that compute dim, index the buffers and assign the result.    *)
(***************************************************************************)
\* The most bytes a pixel buffer in memory is taken to have: 64 GiB.
MemoryLimit == <<0, 0, 0, 0, 16, 0, 0, 0>>

\* The exact product width * height * k, 9 bytes.
ExactBytes(width, height, k) ==
    MulLE(MulLE(ToLE(width, 4), ToLE(height, 4)), <<k>>)

\* lib.rs 19-36: the header load_image returns, with the length of the
\* buffer into_bytes() returns.
load_header(format, color, width, height) ==
    [format |-> format,
     len    |-> SubSeq(ExactBytes(width, height, bytes_per_pixel(color)), 1, 8),
     color  |-> color,
     width  |-> width,
     height |-> height]

\* The header of an image of Spec.
HeaderOf(im) ==
    [format |-> im.format, len |-> ToLE(Len(im.pixels), 8), color |-> im.color,
     width |-> im.width, height |-> im.height]

SizeResult(outcome, line, len, dim) ==
    [outcome |-> outcome, line |-> line, len |-> len, dim |-> dim]

\* encrypt_image, lib.rs 65-107, on lengths: dim (70), the reads of
\* img.pixels up to index channels * dim - 1 (85), the reads of
\* pixels_perm[c] and rand_nums[0] (92), and the channels * dim bytes
\* assigned to img.pixels (106).
encrypt_size(h, checks) ==
    LET m        == U32Mul(h.width, h.height)
        dim      == m.wrapped
        channels == channel_count(h.color)
        need     == MulLE(dim, ToLE(channels, 4))
    IN IF m.overflow /\ checks THEN SizeResult("panicked", 70, h.len, <<>>)
       ELSE IF dim # Zeros(4) /\ LessLE(h.len, need)
       THEN SizeResult("panicked", 85, h.len, dim)
       ELSE IF dim = Zeros(4) THEN SizeResult("panicked", 92, h.len, dim)
       ELSE SizeResult("ok", 0, need, dim)

\* decrypt_image, lib.rs 109-157, on lengths: dim (114), the reads of
\* img.pixels[c] and rand_nums[0] (134), the reads of img.pixels up to index
\* channels * dim - 1 when dim >= 2 (142), and the channels * dim bytes
\* assigned to img.pixels (156).
decrypt_size(h, checks) ==
    LET m        == U32Mul(h.width, h.height)
        dim      == m.wrapped
        channels == channel_count(h.color)
        need     == MulLE(dim, ToLE(channels, 4))
    IN IF m.overflow /\ checks THEN SizeResult("panicked", 114, h.len, <<>>)
       ELSE IF dim = Zeros(4) \/ LessLE(h.len, ToLE(channels, 8))
       THEN SizeResult("panicked", 134, h.len, dim)
       ELSE IF dim # ToLE(1, 4) /\ LessLE(h.len, need)
       THEN SizeResult("panicked", 142, h.len, dim)
       ELSE SizeResult("ok", 0, need, dim)

NoImage == load_image("Png", "L8", 0, 0, 0)

InitSize ==
    /\ hdr \in {load_header(f, col, w, h) :
                   f \in Formats, col \in ColorTypes,
                   w \in SizeValues, h \in SizeValues}
    /\ ExactBytes(hdr.width, hdr.height, bytes_per_pixel(hdr.color))[9] = 0
    /\ LessLE(hdr.len, MemoryLimit)
    /\ sizeHist = <<>>
    /\ img = NoImage
    /\ hist = <<>>

SizeCall(op, checks, pre, r) ==
    [op |-> op, checks |-> checks, pre |-> pre, outcome |-> r.outcome,
     line |-> r.line, dim |-> r.dim, post |-> [pre EXCEPT !.len = r.len]]

EncryptSize ==
    /\ Len(sizeHist) < MaxSizeCalls
    /\ \E checks \in BOOLEAN :
          LET r == encrypt_size(hdr, checks)
          IN /\ hdr' = [hdr EXCEPT !.len = r.len]
             /\ sizeHist' = Append(sizeHist, SizeCall("enc", checks, hdr, r))
    /\ UNCHANGED <<img, hist>>

DecryptSize ==
    /\ Len(sizeHist) < MaxSizeCalls
    /\ \E checks \in BOOLEAN :
          LET r == decrypt_size(hdr, checks)
          IN /\ hdr' = [hdr EXCEPT !.len = r.len]
             /\ sizeHist' = Append(sizeHist, SizeCall("dec", checks, hdr, r))
    /\ UNCHANGED <<img, hist>>

NextSize == EncryptSize \/ DecryptSize

SpecSize == InitSize /\ [][NextSize]_vars

(***************************************************************************)
(* What the claims speak of.                                               *)
(***************************************************************************)
Calls == 1..Len(hist)

\* dim of the glossary: width x height, exactly.
PixelCount(im) == im.width * im.height

\* Section 3: the buffer holds channel_count bytes per pixel, at most 4.
WellFormed(im) ==
    /\ channel_count(im.color) \in 1..4
    /\ Len(im.pixels) = PixelCount(im) * channel_count(im.color)

\* B(w, c): the c-th least-significant byte of the word w.
B(w, c) == (w \div (2 ^ (8 * c))) % 256

\* Byte c of pixel i of a buffer of ch bytes per pixel.
PixelByte(buf, ch, i, c) == buf[ch * i + c + 1]

\* Whether p is a bijection of [0, dim), as a list.
IsPermutation(p, dim) ==
    /\ Len(p) = dim
    /\ \A j \in 0..(dim - 1) : \E i \in 1..dim : p[i] = j

\* The inverse of the permutation p at j.
InverseAt(p, j) == (CHOOSE i \in 1..Len(p) : p[i] = j) - 1

(***************************************************************************)
(* C1.  Round trip: encrypt_image and then decrypt_image with the same key *)
(* on a well-formed image both return and leave the pixels as they were    *)
(* before the encryption.  Stated for every well-formed image; an empty    *)
(* one makes both calls panic (lines 92 and 134).                          *)
(***************************************************************************)
RoundTrip ==
    \A n \in Calls :
        (/\ n >= 2
         /\ hist[n - 1].op = "enc" /\ hist[n].op = "dec"
         /\ hist[n - 1].key = hist[n].key
         /\ WellFormed(hist[n - 1].pre))
        => /\ hist[n - 1].outcome = "ok"
           /\ hist[n].outcome = "ok"
           /\ hist[n].post = hist[n - 1].pre.pixels

\* An encryption of an empty well-formed image followed by its decryption.
RoundTripOfEmpty ==
    \E n \in Calls :
        /\ n >= 2
        /\ hist[n - 1].op = "enc" /\ hist[n].op = "dec"
        /\ hist[n - 1].key = hist[n].key
        /\ WellFormed(hist[n - 1].pre)
        /\ PixelCount(hist[n - 1].pre) = 0

\* The round trip of the images that have a pixel.
RoundTripNonEmpty ==
    \A n \in Calls :
        (/\ n >= 2
         /\ hist[n - 1].op = "enc" /\ hist[n].op = "dec"
         /\ hist[n - 1].key = hist[n].key
         /\ WellFormed(hist[n - 1].pre)
         /\ PixelCount(hist[n - 1].pre) >= 1)
        => /\ hist[n - 1].outcome = "ok"
           /\ hist[n].outcome = "ok"
           /\ hist[n].post = hist[n - 1].pre.pixels

(***************************************************************************)
(* C2.  Totality: on a well-formed image (any pixel count, 0 and 1         *)
(* included) every call of encrypt_image and of decrypt_image returns.     *)
(***************************************************************************)
Totality ==
    \A n \in Calls : WellFormed(hist[n].pre) => hist[n].outcome = "ok"

\* Totality of the calls on images that have a pixel.
TotalityNonEmpty ==
    \A n \in Calls :
        (WellFormed(hist[n].pre) /\ PixelCount(hist[n].pre) >= 1)
        => hist[n].outcome = "ok"

(***************************************************************************)
(* C3.  Empty image: with width * height = 0 and an empty buffer, each of  *)
(* the two functions returns and leaves the buffer empty.                  *)
(***************************************************************************)
EmptyImageNoOp ==
    \A n \in Calls :
        (PixelCount(hist[n].pre) = 0 /\ hist[n].pre.pixels = <<>>)
        => (hist[n].outcome = "ok" /\ hist[n].post = <<>>)

(***************************************************************************)
(* C4.  Determinism: two calls of encrypt_image on equal images with the   *)
(* same key end the same way with the same bytes, whatever was called in   *)
(* between.                                                                *)
(***************************************************************************)
Determinism ==
    \A m, n \in Calls :
        (/\ hist[m].op = "enc" /\ hist[n].op = "enc"
         /\ hist[m].key = hist[n].key
         /\ hist[m].pre = hist[n].pre)
        => (hist[m].post = hist[n].post /\ hist[m].outcome = hist[n].outcome)

\* The same image of two pixels or more encrypted twice with one key, with
\* another call in between.
EncryptedTwice ==
    \E m, n \in Calls :
        /\ m + 1 < n
        /\ hist[m].op = "enc" /\ hist[n].op = "enc"
        /\ hist[m].key = hist[n].key
        /\ hist[m].pre = hist[n].pre
        /\ hist[m].outcome = "ok"
        /\ PixelCount(hist[m].pre) >= 2
        /\ hist[m].post # hist[m].pre.pixels

(***************************************************************************)
(* C6.  Encrypt result: a call of encrypt_image on a well-formed image     *)
(* with a pixel returns, and with (start, rand_nums, permutation) the      *)
(* triple it generated and P[i][c] = pixels[c + ch * permutation[i]], the  *)
(* buffer C it leaves has C[0][c] = B(start, c) xor P[0][c] xor            *)
(* B(rand_nums[0], c) and C[i][c] = C[i-1][c] xor P[i][c] xor              *)
(* B(rand_nums[i], c) for i >= 1, for every channel c.                     *)
(***************************************************************************)
EncryptResult ==
    \A n \in Calls :
        LET h   == hist[n]
            ch  == channel_count(h.pre.color)
            dim == PixelCount(h.pre)
            P(i, c) == PixelByte(h.pre.pixels, ch, h.permutation[i + 1], c)
            C(i, c) == PixelByte(h.post, ch, i, c)
        IN /\ (h.op = "enc" /\ WellFormed(h.pre) /\ dim >= 1)
              => h.outcome = "ok"
           /\ (h.op = "enc" /\ h.outcome = "ok")
              => /\ dim >= 1
                 /\ Len(h.post) = ch * dim
                 /\ \A c \in 0..(ch - 1) :
                       C(0, c) = Xor8(Xor8(B(h.start, c), P(0, c)),
                                      B(h.rand_nums[1], c))
                 /\ \A i \in 1..(dim - 1), c \in 0..(ch - 1) :
                       C(i, c) = Xor8(Xor8(C(i - 1, c), P(i, c)),
                                      B(h.rand_nums[i + 1], c))

\* An encryption of three pixels of several channels that moved a pixel.
EncryptedChain ==
    \E n \in Calls :
        /\ hist[n].op = "enc" /\ hist[n].outcome = "ok"
        /\ PixelCount(hist[n].pre) >= 3
        /\ channel_count(hist[n].pre.color) >= 3
        /\ hist[n].permutation # Identity(PixelCount(hist[n].pre))

(***************************************************************************)
(* C7.  Decrypt result: a call of decrypt_image on a well-formed image     *)
(* with a pixel returns; with C the stored buffer, P[0][c] = B(start, c)   *)
(* xor C[0][c] xor B(rand_nums[0], c) and P[i][c] = C[i-1][c] xor C[i][c]  *)
(* xor B(rand_nums[i], c) for i >= 1, the buffer it leaves has             *)
(* out[c + ch * j] = P[inverse of permutation at j][c].                    *)
(***************************************************************************)
DecryptResult ==
    \A n \in Calls :
        LET h   == hist[n]
            ch  == channel_count(h.pre.color)
            dim == PixelCount(h.pre)
            C(i, c) == PixelByte(h.pre.pixels, ch, i, c)
            P(i, c) ==
                IF i = 0
                THEN Xor8(Xor8(B(h.start, c), C(0, c)), B(h.rand_nums[1], c))
                ELSE Xor8(Xor8(C(i - 1, c), C(i, c)),
                          B(h.rand_nums[i + 1], c))
        IN /\ (h.op = "dec" /\ WellFormed(h.pre) /\ dim >= 1)
              => h.outcome = "ok"
           /\ (h.op = "dec" /\ h.outcome = "ok")
              => /\ dim >= 1
                 /\ Len(h.post) = ch * dim
                 /\ \A j \in 0..(dim - 1), c \in 0..(ch - 1) :
                       PixelByte(h.post, ch, j, c)
                           = P(InverseAt(h.permutation, j), c)

\* A decryption of three pixels of several channels under a permutation
\* that is not its own inverse.
DecryptedChain ==
    \E n \in Calls :
        /\ hist[n].op = "dec" /\ hist[n].outcome = "ok"
        /\ PixelCount(hist[n].pre) >= 3
        /\ channel_count(hist[n].pre.color) >= 3
        /\ \E j \in 0..(PixelCount(hist[n].pre) - 1) :
              InverseAt(hist[n].permutation, j) # hist[n].permutation[j + 1]

RECURSIVE StreamState(_, _)
\* The generator seeded with key after n draws.
StreamState(key, n) ==
    IF n = 0 THEN seed_from_u64(key)
    ELSE next_u32(StreamState(key, n - 1)).rng

\* The n-th word (from 1) of the stream of key.
StreamWord(key, n) == next_u32(StreamState(key, n - 1)).val

\* What the j-th draw (from 1) of a call on dim pixels is for.
DrawnFor(j, dim) ==
    IF j = 1 THEN "init" ELSE IF j <= dim + 1 THEN "keystream" ELSE "shuffle"

(***************************************************************************)
(* C8.  Generator draw order: every call, of either function, draws from a *)
(* generator freshly seeded with its key: the initialization word is the   *)
(* 1st word of the key's stream, the keystream is its next dim words in    *)
(* index order, the shuffle of the identity draws what follows, and        *)
(* nothing else is drawn.  So calls with the same key on the same number   *)
(* of pixels, encrypting or decrypting, get the same triple.               *)
(***************************************************************************)
DrawOrder ==
    /\ \A n \in Calls :
          LET h   == hist[n]
              dim == PixelCount(h.pre)
          IN /\ Len(h.draws) >= dim + 1
             /\ \A j \in 1..Len(h.draws) :
                   h.draws[j] = Draw(DrawnFor(j, dim),
                                     StreamState(h.key, j - 1))
             /\ h.start = StreamWord(h.key, 1)
             /\ Len(h.rand_nums) = dim
             /\ \A i \in 1..dim : h.rand_nums[i] = StreamWord(h.key, i + 1)
             /\ IsPermutation(h.permutation, dim)
             /\ h.rngEnd = StreamState(h.key, Len(h.draws))
    /\ \A m, n \in Calls :
          (/\ hist[m].key = hist[n].key
           /\ PixelCount(hist[m].pre) = PixelCount(hist[n].pre))
          => /\ hist[m].start = hist[n].start
             /\ hist[m].rand_nums = hist[n].rand_nums
             /\ hist[m].permutation = hist[n].permutation

\* An encryption and a decryption of three pixels or more with one key.
SameKeyBothWays ==
    \E m, n \in Calls :
        /\ hist[m].op = "enc" /\ hist[n].op = "dec"
        /\ hist[m].key = hist[n].key
        /\ PixelCount(hist[m].pre) >= 3
        /\ PixelCount(hist[m].pre) = PixelCount(hist[n].pre)
        /\ hist[m].outcome = "ok" /\ hist[n].outcome = "ok"

\* A buffer of n bytes, no two pixels of which are equal.
DistinctBuffer(n) == [k \in 1..n |-> k % 256]

(***************************************************************************)
(* C9.  Permutation inverse: the permutation a call of decrypt_image       *)
(* shuffles is a bijection of [0, dim); the loop of lines 127-129 leaves   *)
(* inv_permutation[permutation[i]] = i for every i, writes every slot      *)
(* exactly once, so inv_permutation is a bijection of [0, dim) too, and    *)
(* gathering with it undoes gathering with the permutation.                *)
(***************************************************************************)
PermutationInverse ==
    \A n \in Calls :
        LET h   == hist[n]
            ch  == channel_count(h.pre.color)
            dim == PixelCount(h.pre)
            p   == h.permutation
            inv == h.inv_permutation
        IN h.op = "dec"
           => /\ IsPermutation(p, dim)
              /\ \A i \in 0..(dim - 1) : inv[p[i + 1] + 1] = i
              /\ \A j \in 0..(dim - 1) :
                    Cardinality({i \in 1..dim : p[i] = j}) = 1
              /\ IsPermutation(inv, dim)
              /\ DecGather(EncGather(DistinctBuffer(ch * dim), ch, p), ch, inv)
                    = DistinctBuffer(ch * dim)

\* A decryption whose permutation is not its own inverse.
InvertedProperPermutation ==
    \E n \in Calls :
        /\ hist[n].op = "dec"
        /\ \E i \in 1..Len(hist[n].permutation) :
              hist[n].inv_permutation[i] # hist[n].permutation[i]

SizeCalls == 1..Len(sizeHist)

\* width * height * channel_count, exactly, as a length.
ExactLength(h) ==
    SubSeq(ExactBytes(h.width, h.height, channel_count(h.color)), 1, 8)

(***************************************************************************)
(* C5.  Frame: a call changes nothing of the image but the contents of the *)
(* pixel buffer: format, color type, width and height stay, and a buffer   *)
(* of width * height * channel_count bytes on entry has as many on exit.   *)
(***************************************************************************)
Frame ==
    \A n \in SizeCalls :
        LET pre  == sizeHist[n].pre
            post == sizeHist[n].post
        IN /\ post.format = pre.format /\ post.color = pre.color
           /\ post.width = pre.width /\ post.height = pre.height
           /\ pre.len = ExactLength(pre) => post.len = ExactLength(pre)

\* A call that returned on a well-formed image of 2^32 pixels or more.
ReturnedOnHugeImage ==
    \E n \in SizeCalls :
        /\ sizeHist[n].outcome = "ok"
        /\ sizeHist[n].pre.len = ExactLength(sizeHist[n].pre)
        /\ U32Mul(sizeHist[n].pre.width, sizeHist[n].pre.height).overflow

\* The frame of the calls on the images of Spec, whose pixel count fits 32
\* bits.
FrameOfSmallImages ==
    \A n \in Calls :
        LET pre == hist[n].pre
            now == IF n = Len(hist) THEN img ELSE hist[n + 1].pre
        IN /\ now.format = pre.format /\ now.color = pre.color
           /\ now.width = pre.width /\ now.height = pre.height
           /\ now.pixels = hist[n].post
           /\ WellFormed(pre) => WellFormed(now)

\* The calls of Spec end as their lengths alone say.
SizesAgree ==
    \A n \in Calls, checks \in BOOLEAN :
        LET h == hist[n]
            r == IF h.op = "enc" THEN encrypt_size(HeaderOf(h.pre), checks)
                 ELSE decrypt_size(HeaderOf(h.pre), checks)
        IN /\ r.outcome = h.outcome
           /\ r.line = h.line
           /\ r.len = ToLE(Len(h.post), 8)
           /\ r.dim = ToLE(Len(h.rand_nums), 4)

(***************************************************************************)
(* C10.  Pixel count arithmetic: for every 32-bit width and height the dim *)
(* a call computes is the exact product width * height: the multiplication *)
(* of line 70 / 114 neither wraps nor panics.                              *)
(***************************************************************************)
DimIsExactProduct ==
    \A n \in SizeCalls :
        LET h == sizeHist[n]
        IN /\ h.line \notin {70, 114}
           /\ h.dim \o Zeros(4) = MulLE(ToLE(h.pre.width, 4),
                                        ToLE(h.pre.height, 4))

\* A call on an image whose pixel count does not fit 32 bits.
CalledOnHugeImage ==
    \E n \in SizeCalls :
        U32Mul(sizeHist[n].pre.width, sizeHist[n].pre.height).overflow

\* The pixel count of the images whose exact pixel count fits 32 bits.
DimIsExactProductIfItFits ==
    \A n \in SizeCalls :
        LET h == sizeHist[n]
        IN ~U32Mul(h.pre.width, h.pre.height).overflow
           => /\ h.line \notin {70, 114}
              /\ h.dim \o Zeros(4) = MulLE(ToLE(h.pre.width, 4),
                                           ToLE(h.pre.height, 4))

=============================================================================
